---------------------------- MODULE Spec2Model ----------------------------
(***************************************************************************)
(* rideLvl: the landmark-to-overlay pipeline.                              *)
(*                                                                         *)
(*   Detector Gateway      services/mediapipeService.js                    *)
(*   Frame Loop Controller hooks/usePoseDetection.js                       *)
(*   Geometry Module       utils/poseCalculations.js                       *)
(*                                                                         *)
(* JavaScript runs one task at a time, so every action below is the code   *)
(* that runs between two suspension points (an await, a requestAnimation-  *)
(* Frame callback, an event handler).                                      *)
(***************************************************************************)
EXTENDS Integers, Sequences, FiniteSets, Bags, TLC

\* ------------------------------------------------------------- bounds ----
\* Detector constructions the gateway may start in one behaviour.
MaxConstructions == 3
\* getLandmarker() calls remembered per epoch (an epoch ends at a reset).
MaxEpochCalls == 3
\* Asynchronous controller calls (initializeMediaPipe, startDetection)
\* that may be suspended at the same time.
MaxCalls == 2
\* Frame callbacks that may be pending at the same time.
MaxRaf == 2
\* Keypoints under the visibility threshold in a pose given to the renderer.
MaxLow == 2
\* The longest compass vector angleBetween is applied to.
MaxMag == 2
\* Players of other video cards that share the detector.
MaxSessions == 2
\* Videos added to the list in one behaviour.
MaxVideos == 2
\* Calls of uploadVideo in one behaviour.
MaxUploads == 3

\* ---------------------------------------------------------- constants ----
\* JavaScript null, for the cached promise, the rAF handle and the angles.
Null == -1
\* Number of keypoints of a full detection (the guard of torsoVector).
FullPose == 33

VARIABLES
  \* Detector Gateway (module state of mediapipeService.js)
  landmarkerPromise,  \* the cached promise: Null or a construction id
  construction,       \* construction id -> stage of the async IIFE
  nConstructions,     \* constructions started so far (ids are 1..n)
  \* consumers of the gateway outside the controller
  epochReturned,      \* promises they received since the last reset, in order
  epochStarts,        \* constructions their calls started since the last reset
  held,               \* promises they hold
  \* Frame Loop Controller (one usePoseDetection instance)
  isReady, isInitializing,  \* React state
  rendered,           \* the flags as captured by the callbacks of the last render
  calls,              \* suspended async calls of the controller
  rafRef,             \* rafRef.current
  leanAngle, slopeAngle,    \* tenths of a degree, or Null
  canvas,             \* the poses whose strokes the drawing surface shows
  \* host: frame scheduler and clock
  scheduled,          \* handles of the callbacks waiting for the next
                      \* animation frame, in the order they were scheduled
  running,            \* those of the animation frame in progress, still to run
  elapsed,            \* whether performance.now() has moved past the timestamp
                      \* of the last detection query: Null before any query,
                      \* 0 while it reads the same value, 1 once it reads more
  \* the component that owns the controller, and its video element
  mounted,            \* the component is mounted (its cleanup has not run)
  video,              \* "paused", "playing", "ended", or "pausing": pause()
                      \* was called and the pause event is still to be
                      \* dispatched
  containerDimensions,\* containerDimensionsRef.current of the player
  effects,            \* the player's effects still to run after a render:
                      \* "cleanup" then "init", or "idle"
  \* the drawing surface and the video frame
  context2d,          \* canvas.getContext('2d') returns a context
  canvasSize,         \* canvas.width x canvas.height
  videoSize,          \* video.videoWidth x video.videoHeight
  scale,              \* the size the last drawing multiplied the normalised
                      \* coordinates by
  \* argument and result of a function of the Geometry Module or of the
  \* renderer applied on its own
  arg, out,
  \* the other components that each own a controller of their own (one
  \* PosePlayer per video card), as far as the shared detector sees them
  sessionAwait,       \* per session, the promise its startDetection awaits
  sessionRaf,         \* per session, its rafRef.current
  \* App: the list of videos and its copy in IndexedDB
  videos,             \* the videos state, newest first
  dirty,              \* videos was set since the save effect last ran
  storage,            \* the records of the videos object store
  saves,              \* the lists that saveVideos calls in flight were given
  deletes,            \* per video id, how far its handleDeleteVideo got
  analyses,           \* ids whose processVideoAnalysis is still to resolve
  nextVideo,          \* the number of videos added so far
  \* useVideoUpload
  isUploading,        \* the isUploading state
  error,              \* the error state: a message, or "null"
  uploads,            \* per uploadVideo call, where it is and its file
  invoked,            \* per uploadVideo call, how often it called onVideoAdded
  \* observers of the controller
  lastOp,             \* the operation the last step performed (a call of
                      \* the controller means its task may still be running)
  halted              \* stopDetection was called and startDetection not since

gatewayVars == <<landmarkerPromise, construction, nConstructions>>
consumerVars == <<epochReturned, epochStarts, held>>
controllerVars == <<isReady, isInitializing, rendered, calls, rafRef,
                    leanAngle, slopeAngle, canvas>>
hostVars == <<scheduled, running, elapsed>>
binderVars == <<mounted, video, containerDimensions, effects>>
surfaceVars == <<context2d, canvasSize, videoSize, scale>>
pureVars == <<arg, out>>
sessionVars == <<sessionAwait, sessionRaf>>
appVars == <<videos, dirty, storage, saves, deletes, analyses, nextVideo>>
uploadVars == <<isUploading, error, uploads, invoked>>
elsewhereVars == <<sessionVars, appVars, uploadVars>>
restVars == <<binderVars, surfaceVars, pureVars, elsewhereVars>>
vars == <<gatewayVars, consumerVars, controllerVars, hostVars, restVars,
          lastOp, halted>>

Ids == 1..MaxConstructions

Range(seq) == {seq[k] : k \in 1..Len(seq)}

\* ------------------------------------------------- Detector Gateway ------
\* A construction is the async IIFE of getLandmarker.  Its stages: "none"
\* (not started), "filesets" (awaiting the fileset resolver), "create"
\* (awaiting createFromOptions), "ready" (returned the landmarker), "failed"
\* (rethrew).  The state of the promise it returns follows from the stage.
PromiseState(p) ==
  CASE construction[p] = "ready" -> "fulfilled"
    [] construction[p] = "failed" -> "rejected"
    [] OTHER -> "pending"

\* Detector instances that exist or are being built.
LiveInstances == {p \in Ids : construction[p] \in {"filesets", "create", "ready"}}

Remember(seq, p) == IF Len(seq) < MaxEpochCalls THEN Append(seq, p) ELSE seq

\* A getLandmarker that builds a new detector on every call.
getLandmarker_noCache(p) ==
  /\ nConstructions < MaxConstructions
  /\ p = nConstructions + 1
  /\ landmarkerPromise' = p
  /\ construction' = [construction EXCEPT ![p] = "filesets"]
  /\ nConstructions' = p

\* getLandmarker(): p is the promise the caller receives.
getLandmarker(p) ==
  /\ IF landmarkerPromise = Null
       THEN /\ nConstructions < MaxConstructions
            /\ p = nConstructions + 1
            /\ landmarkerPromise' = p
            /\ construction' = [construction EXCEPT ![p] = "filesets"]
            /\ nConstructions' = p
       ELSE /\ p = landmarkerPromise
            /\ UNCHANGED <<landmarkerPromise, construction, nConstructions>>

\* A resetLandmarker that only forgets a detector that was built.
resetLandmarker_onlyReady ==
  /\ landmarkerPromise' =
       IF landmarkerPromise # Null /\ PromiseState(landmarkerPromise) = "fulfilled"
         THEN Null ELSE landmarkerPromise
  /\ UNCHANGED <<construction, nConstructions>>

\* resetLandmarker()
resetLandmarker ==
  /\ landmarkerPromise' = Null
  /\ UNCHANGED <<construction, nConstructions>>

\* The awaited loaders of the IIFE settle: FilesetResolver.forVisionTasks
\* resolves or throws, then PoseLandmarker.createFromOptions does.
ConstructionStep(p) ==
  /\ construction[p] \in {"filesets", "create"}
  /\ \E ok \in BOOLEAN :
       construction' = [construction EXCEPT ![p] =
         IF ~ok THEN "failed"
         ELSE IF construction[p] = "filesets" THEN "create" ELSE "ready"]
  /\ UNCHANGED <<landmarkerPromise, nConstructions>>

\* ------------------------------------------------- Geometry Module -------
\* Positions are <<x, y>> in tenths of the frame; a vector is <<x, y>> and
\* the absence value is the empty tuple.
NoVector == <<>>

\* REFERENCE_VECTORS: VERTICAL is (0, 1); SLOPE is (cos 25, sin 25), kept
\* in thousandths.
VERTICAL == <<0, 1>>
SLOPE == <<906, 423>>

\* A torsoVector that accepts a sequence one keypoint short.
torsoVector_oneShort(lm) ==
  IF lm.n = Null \/ lm.n < FullPose - 1 THEN NoVector
  ELSE <<(lm.ls[1] + lm.rs[1]) - (lm.lh[1] + lm.rh[1]),
         (lm.ls[2] + lm.rs[2]) - (lm.lh[2] + lm.rh[2])>>

\* A torsoVector that gives up on keypoints that are not visible.
torsoVector_visibleOnly(lm) ==
  IF lm.n = Null \/ lm.n < FullPose \/ ~lm.visible THEN NoVector
  ELSE <<(lm.ls[1] + lm.rs[1]) - (lm.lh[1] + lm.rh[1]),
         (lm.ls[2] + lm.rs[2]) - (lm.lh[2] + lm.rh[2])>>

\* torsoVector(landmarks): shoulder midpoint minus hip midpoint.  The
\* components are in twentieths of the frame (the halving of the two
\* midpoints is applied to the unit, not to the numbers).
torsoVector(lm) ==
  IF lm.n = Null \/ lm.n < FullPose THEN NoVector
  ELSE <<(lm.ls[1] + lm.rs[1]) - (lm.lh[1] + lm.rh[1]),
         (lm.ls[2] + lm.rs[2]) - (lm.lh[2] + lm.rh[2])>>

\* Polar angle of a vector (atan2) in hundredths of a degree, tabulated for
\* the directions the model feeds it: the eight compass directions, SLOPE,
\* and the direction of (2, -1), at 333.43 degrees.
Heading(v) ==
  CASE v = SLOPE -> 2500
    [] v[2] = 0 /\ v[1] > 0 -> 0
    [] v[1] > 0 /\ v[2] = v[1] -> 4500
    [] v[1] = 0 /\ v[2] > 0 -> 9000
    [] v[1] < 0 /\ v[2] = -v[1] -> 13500
    [] v[2] = 0 /\ v[1] < 0 -> 18000
    [] v[1] < 0 /\ v[2] = v[1] -> 22500
    [] v[1] = 0 /\ v[2] < 0 -> 27000
    [] v[1] > 0 /\ v[2] = -v[1] -> 31500
    [] v[2] < 0 /\ v[1] = -2 * v[2] -> 33343

Abs(n) == IF n < 0 THEN -n ELSE n

\* An angleBetween that takes the difference of the two polar angles as it
\* comes, the long way round included.
angleBetween_unfolded(v1, v2) ==
  IF (v1[1] = 0 /\ v1[2] = 0) \/ (v2[1] = 0 /\ v2[2] = 0) THEN Null
  ELSE Abs(Heading(v1) - Heading(v2))

\* angleBetween(v1, v2) in hundredths of a degree: Null when a magnitude is
\* zero, else acos of the normalised dot product, which is the difference
\* of the two polar angles folded into [0, 180].
angleBetween(v1, v2) ==
  IF (v1[1] = 0 /\ v1[2] = 0) \/ (v2[1] = 0 /\ v2[2] = 0) THEN Null
  ELSE LET d == Abs(Heading(v1) - Heading(v2))
       IN  IF d > 18000 THEN 36000 - d ELSE d

\* Number(x.toFixed(1)): hundredths of a degree to tenths, rounded half up.
toFixed1(h) == (h + 5) \div 10

\* No argument yet, or no result yet.
NoArg == [n |-> Null]

\* ------------------------------------------------ detector results -------
\* What detectForVideo may return for a frame: result.landmarks[0] as the
\* number of keypoints n, the four keypoints torsoVector reads, and whether
\* every one of the n entries is an object (whole).
Landmarks(n, ls, rs, lh, rh, whole) ==
  [n |-> n, ls |-> ls, rs |-> rs, lh |-> lh, rh |-> rh, whole |-> whole]

NoPose == Landmarks(0, <<0, 0>>, <<0, 0>>, <<0, 0>>, <<0, 0>>, TRUE)
ShortPose == Landmarks(17, <<4, 2>>, <<6, 2>>, <<0, 0>>, <<0, 0>>, TRUE)
Upright == Landmarks(33, <<4, 2>>, <<6, 2>>, <<4, 8>>, <<6, 8>>, TRUE)
Leaning == Landmarks(33, <<6, 2>>, <<8, 2>>, <<0, 8>>, <<2, 8>>, TRUE)
Collapsed == Landmarks(33, <<4, 5>>, <<6, 5>>, <<4, 5>>, <<6, 5>>, TRUE)
Holed == Landmarks(33, <<6, 2>>, <<8, 2>>, <<0, 8>>, <<2, 8>>, FALSE)
Tilted == Landmarks(33, <<8, 3>>, <<10, 3>>, <<2, 6>>, <<4, 6>>, TRUE)

DetectorResults == {NoPose, ShortPose, Upright, Leaning, Collapsed, Holed, Tilted}

\* ---------------------------------------------------- the renderer -------
\* The visibility under which a keypoint is not drawn, in hundredths.
VisibilityThreshold == 30

\* getPoseConnections(): the pairs of keypoints joined by a stroke.
getPoseConnections ==
  << <<0, 1>>, <<1, 2>>, <<2, 3>>, <<3, 7>>, <<0, 4>>, <<4, 5>>, <<5, 6>>, <<6, 8>>,
     <<9, 10>>,
     <<11, 12>>, <<11, 13>>, <<13, 15>>, <<15, 17>>, <<15, 19>>, <<15, 21>>,
     <<12, 14>>, <<14, 16>>, <<16, 18>>, <<16, 20>>, <<16, 22>>,
     <<11, 23>>, <<12, 24>>, <<23, 24>>,
     <<17, 19>>, <<18, 20>>,
     <<23, 25>>, <<25, 27>>, <<27, 29>>, <<27, 31>>, <<29, 31>>,
     <<24, 26>>, <<26, 28>>, <<28, 30>>, <<28, 32>>, <<30, 32>> >>

\* The keypoints of a drawing are kp.n in number, counted from 0, and
\* keypoint i has visibility kp.vis[i], in hundredths.

\* A renderer that draws an edge when one of its ends is visible enough.
drawnEdges_oneEnd(kp) ==
  {e \in Range(getPoseConnections) :
     /\ e[1] < kp.n /\ e[2] < kp.n
     /\ ~(kp.vis[e[1]] < VisibilityThreshold /\ kp.vis[e[2]] < VisibilityThreshold)}

\* The connections the first loop of the drawing strokes: those with both
\* keypoints present and neither under the threshold.
drawnEdges(kp) ==
  {e \in Range(getPoseConnections) :
     /\ e[1] < kp.n /\ e[2] < kp.n
     /\ ~(kp.vis[e[1]] < VisibilityThreshold \/ kp.vis[e[2]] < VisibilityThreshold)}

\* A strokeStyle that looks at the lower-body range before the upper-body
\* range.
strokeStyle_legFirst(a, b) ==
  IF a <= 10 /\ b <= 10 THEN "lightblue"
  ELSE IF (a >= 23 /\ a <= 32) \/ (b >= 23 /\ b <= 32) THEN "orange"
  ELSE IF (a >= 11 /\ a <= 16) \/ (b >= 11 /\ b <= 16) THEN "green"
  ELSE "red"

\* ctx.strokeStyle of the connection (a, b): rgba(100, 200, 255) is light
\* blue, rgba(0, 255, 100) green, rgba(255, 150, 0) orange and
\* rgba(255, 50, 50) red.
strokeStyle(a, b) ==
  IF a <= 10 /\ b <= 10 THEN "lightblue"
  ELSE IF (a >= 11 /\ a <= 16) \/ (b >= 11 /\ b <= 16) THEN "green"
  ELSE IF (a >= 23 /\ a <= 32) \/ (b >= 23 /\ b <= 32) THEN "orange"
  ELSE "red"

\* The keypoints the second loop draws as joints.
drawnJoints(kp) ==
  {i \in 0..(kp.n - 1) : ~(kp.vis[i] < VisibilityThreshold)}

\* ------------------------------------------- Frame Loop Controller -------
FrameOps == {"frame:drawn", "frame:cleared", "frame:queryThrew", "frame:drawThrew"}

Flags == [ready |-> isReady, initializing |-> isInitializing]

Call(kind, pc, p) == [kind |-> kind, pc |-> pc, p |-> p]

Suspend(c) == calls (+) SetToBag({c})
Finish(c) == calls (-) SetToBag({c})
Suspended == BagToSet(calls)

\* A suspended call resumes in a microtask once the promise it awaits has
\* settled (the await of a call that returned at once has nothing to wait
\* for).  The host runs every microtask before its next task.
Resumable(c) == IF c.p = Null THEN TRUE ELSE PromiseState(c.p) # "pending"
MicrotasksDone == \A c \in Suspended : ~Resumable(c)

\* The host starts a task only when the microtasks are done and the
\* callbacks of the animation frame in progress have all run.
TaskMayStart == MicrotasksDone /\ running = <<>>

\* The controller's functions are called from tasks (an event handler, an
\* effect); a task may make several calls in a row before the calls it
\* suspended resume.
ApiOps == {"initializeMediaPipe", "startDetection", "stopDetection:cancelled",
           "stopDetection:idle"}
MayCall == mounted /\ (IF lastOp \in ApiOps THEN TRUE ELSE TaskMayStart)

Remove(seq, h) == SelectSeq(seq, LAMBDA x : x # h)

\* rafRef.current = requestAnimationFrame(cb), with sched and run the
\* callbacks pending when it is called.  A handle is opaque: the code only
\* stores it in rafRef and passes it to cancelAnimationFrame, and every
\* call overwrites rafRef, so a handle no pending callback has is as good
\* as a fresh one and the smallest such handle is returned.
requestAnimationFrame(sched, run) ==
  LET free == (1..MaxRaf) \ (Range(sched) \cup Range(run))
  IN  /\ free # {}
      /\ LET h == CHOOSE x \in free : \A y \in free : x <= y
         IN  /\ scheduled' = Append(sched, h)
             /\ rafRef' = h

\* React renders again: the callbacks are rebuilt over the current state.
\* (The controller's functions below say nothing of the variables of the
\* component that calls them: the caller does.)
Render ==
  /\ mounted
  /\ rendered # Flags
  /\ rendered' = Flags
  /\ lastOp' = "render"
  /\ UNCHANGED <<gatewayVars, consumerVars, isReady, isInitializing, calls, rafRef,
                 leanAngle, slopeAngle, canvas, hostVars, halted>>

\* initializeMediaPipe() up to its await.
initializeMediaPipe ==
  /\ MayCall
  /\ lastOp' = "initializeMediaPipe"
  /\ IF rendered.ready \/ rendered.initializing
       THEN UNCHANGED <<gatewayVars, isInitializing, calls>>
       ELSE /\ BagCardinality(calls) < MaxCalls
            /\ isInitializing' = TRUE
            /\ \E p \in Ids :
                 /\ getLandmarker(p)
                 /\ calls' = Suspend(Call("init", "getLandmarker", p))
  /\ UNCHANGED <<consumerVars, isReady, rendered, rafRef, leanAngle, slopeAngle, canvas,
                 hostVars, halted>>

\* initializeMediaPipe() after its await: the promise has settled.
initializeResume(c) ==
  /\ c.kind = "init"
  /\ Resumable(c)
  /\ lastOp' = "initializeResume"
  /\ isReady' = (isReady \/ PromiseState(c.p) = "fulfilled")
  /\ isInitializing' = FALSE
  /\ calls' = Finish(c)
  /\ UNCHANGED restVars
  /\ UNCHANGED <<gatewayVars, consumerVars, rendered, rafRef, leanAngle, slopeAngle, canvas,
                 hostVars, halted>>

\* The frame callbacks that are pending or that a suspended startDetection
\* is about to request; the host has MaxRaf handles to give.
FramesWanted ==
  Cardinality(Range(scheduled) \cup Range(running))
    + BagCardinality([c \in {d \in BagToSet(calls) : d.kind = "start"} |-> calls[c]])

\* startDetection(video, canvas) up to its first await.
startDetection ==
  /\ MayCall
  /\ lastOp' = "startDetection"
  /\ halted' = FALSE
  /\ BagCardinality(calls) < MaxCalls
  /\ FramesWanted < MaxRaf
  /\ IF ~rendered.ready
       THEN \* await initializeMediaPipe(), whose guard reads the same render
            IF rendered.initializing
              THEN /\ calls' = Suspend(Call("start", "initializeMediaPipe", Null))
                   /\ UNCHANGED <<gatewayVars, isInitializing>>
              ELSE /\ isInitializing' = TRUE
                   /\ \E p \in Ids :
                        /\ getLandmarker(p)
                        /\ calls' = Suspend(Call("start", "initializeMediaPipe", p))
       ELSE \* await getLandmarker()
            /\ \E p \in Ids :
                 /\ getLandmarker(p)
                 /\ calls' = Suspend(Call("start", "getLandmarker", p))
            /\ UNCHANGED isInitializing
  /\ UNCHANGED <<consumerVars, isReady, rendered, rafRef, leanAngle, slopeAngle, canvas,
                 hostVars>>

\* startDetection resumes after await initializeMediaPipe(): the inline
\* initialization finishes (its flags are set), and on success the call
\* goes on to await getLandmarker(); on failure startDetection rejects.
startAfterInitialize(c) ==
  /\ c.kind = "start" /\ c.pc = "initializeMediaPipe"
  /\ Resumable(c)
  /\ lastOp' = "startResume"
  /\ IF c.p # Null /\ PromiseState(c.p) = "rejected"
       THEN /\ isInitializing' = FALSE
            /\ calls' = Finish(c)
            /\ UNCHANGED <<gatewayVars, isReady>>
       ELSE /\ IF c.p # Null
                 THEN isReady' = TRUE /\ isInitializing' = FALSE
                 ELSE UNCHANGED <<isReady, isInitializing>>
            /\ \E q \in Ids :
                 /\ getLandmarker(q)
                 /\ calls' = Finish(c) (+) SetToBag({Call("start", "getLandmarker", q)})
  /\ UNCHANGED restVars
  /\ UNCHANGED <<consumerVars, rendered, rafRef, leanAngle, slopeAngle, canvas, hostVars,
                 halted>>

\* A startDetection that schedules the first iteration whether or not the
\* landmarker came.
startAfterLandmarker_anyway(c) ==
  /\ c.kind = "start" /\ c.pc = "getLandmarker"
  /\ Resumable(c)
  /\ lastOp' = "startResume:scheduled"
  /\ calls' = Finish(c)
  /\ requestAnimationFrame(scheduled, running)
  /\ UNCHANGED restVars
  /\ UNCHANGED <<gatewayVars, consumerVars, isReady, isInitializing, rendered, leanAngle,
                 slopeAngle, canvas, running, elapsed, halted>>

\* startDetection resumes after await getLandmarker(): with the landmarker
\* it schedules the first iteration; a rejection is caught and logged.
startAfterLandmarker(c) ==
  /\ c.kind = "start" /\ c.pc = "getLandmarker"
  /\ Resumable(c)
  /\ lastOp' = IF PromiseState(c.p) = "fulfilled"
                THEN "startResume:scheduled" ELSE "startResume:caught"
  /\ calls' = Finish(c)
  /\ IF PromiseState(c.p) = "fulfilled"
       THEN requestAnimationFrame(scheduled, running)
       ELSE UNCHANGED <<scheduled, rafRef>>
  /\ UNCHANGED restVars
  /\ UNCHANGED <<gatewayVars, consumerVars, isReady, isInitializing, rendered, leanAngle,
                 slopeAngle, canvas, running, elapsed, halted>>

StopOps == {"stopDetection:cancelled", "stopDetection:idle"}

\* A stopDetection that cancels the frame and forgets to clear rafRef.
stopDetection_keepsHandle ==
  /\ MayCall
  /\ lastOp' = IF rafRef # Null THEN "stopDetection:cancelled" ELSE "stopDetection:idle"
  /\ halted' = TRUE
  /\ IF rafRef # Null
       THEN scheduled' = Remove(scheduled, rafRef)
       ELSE UNCHANGED scheduled
  /\ UNCHANGED <<gatewayVars, consumerVars, isReady, isInitializing, rendered,
                 calls, rafRef, leanAngle, slopeAngle, canvas, running, elapsed>>

\* A stopDetection that also resets the angles.
stopDetection_clearsAngles ==
  /\ MayCall
  /\ lastOp' = IF rafRef # Null THEN "stopDetection:cancelled" ELSE "stopDetection:idle"
  /\ halted' = TRUE
  /\ IF rafRef # Null
       THEN /\ scheduled' = Remove(scheduled, rafRef)
            /\ rafRef' = Null
       ELSE UNCHANGED <<scheduled, rafRef>>
  /\ leanAngle' = Null /\ slopeAngle' = Null
  /\ UNCHANGED <<gatewayVars, consumerVars, isReady, isInitializing, rendered,
                 calls, canvas, running, elapsed>>

\* stopDetection(): lastOp records whether it found a handle to cancel.
stopDetection ==
  /\ MayCall
  /\ lastOp' = IF rafRef # Null THEN "stopDetection:cancelled" ELSE "stopDetection:idle"
  /\ halted' = TRUE
  /\ IF rafRef # Null
       THEN \* cancelAnimationFrame(rafRef.current); no frame is in
            \* progress while a task runs, so the callback is in scheduled
            /\ scheduled' = Remove(scheduled, rafRef)
            /\ rafRef' = Null
       ELSE UNCHANGED <<scheduled, rafRef>>
  /\ UNCHANGED <<gatewayVars, consumerVars, isReady, isInitializing, rendered,
                 calls, leanAngle, slopeAngle, canvas, running, elapsed>>

\* The host starts an animation frame: the callbacks scheduled so far are
\* the ones it will run, and the clock has advanced since the last frame.
BeginFrame ==
  /\ TaskMayStart
  /\ scheduled # <<>>
  /\ running' = scheduled
  /\ scheduled' = <<>>
  /\ elapsed' = IF elapsed = Null THEN Null ELSE 1
  /\ lastOp' = "beginFrame"
  /\ UNCHANGED restVars
  /\ UNCHANGED <<gatewayVars, consumerVars, controllerVars, halted>>

\* A processing that forgets the angles when the query found no skeleton.
ProcessLandmarks_forgets(lm) ==
  IF lm.n > 0
    THEN LET torso == torsoVector(lm)
             lean == IF torso # NoVector
                       THEN angleBetween(torso, VERTICAL) ELSE Null
             slope == IF torso # NoVector
                        THEN angleBetween(torso, SLOPE) ELSE Null
         IN  /\ leanAngle' = IF lean # Null THEN toFixed1(lean) ELSE leanAngle
             /\ slopeAngle' = IF slope # Null THEN toFixed1(slope) ELSE slopeAngle
             /\ canvas' = {lm}
             /\ lastOp' = IF lm.whole THEN "frame:drawn" ELSE "frame:drawThrew"
    ELSE /\ canvas' = {}
         /\ lastOp' = "frame:cleared"
         /\ leanAngle' = Null /\ slopeAngle' = Null

\* A processing that draws over what the surface shows.
ProcessLandmarks_noClear(lm) ==
  IF lm.n > 0
    THEN LET torso == torsoVector(lm)
             lean == IF torso # NoVector
                       THEN angleBetween(torso, VERTICAL) ELSE Null
             slope == IF torso # NoVector
                        THEN angleBetween(torso, SLOPE) ELSE Null
         IN  /\ leanAngle' = IF lean # Null THEN toFixed1(lean) ELSE leanAngle
             /\ slopeAngle' = IF slope # Null THEN toFixed1(slope) ELSE slopeAngle
             /\ canvas' = canvas \cup {lm}
             /\ lastOp' = IF lm.whole THEN "frame:drawn" ELSE "frame:drawThrew"
    ELSE /\ canvas' = {}
         /\ lastOp' = "frame:cleared"
         /\ UNCHANGED <<leanAngle, slopeAngle>>

\* A processing that publishes 0 for an angle it could not compute.
ProcessLandmarks_zero(lm) ==
  IF lm.n > 0
    THEN LET torso == torsoVector(lm)
             lean == IF torso # NoVector
                       THEN angleBetween(torso, VERTICAL) ELSE Null
             slope == IF torso # NoVector
                        THEN angleBetween(torso, SLOPE) ELSE Null
         IN  /\ leanAngle' = IF lean # Null THEN toFixed1(lean) ELSE 0
             /\ slopeAngle' = IF slope # Null THEN toFixed1(slope) ELSE 0
             /\ canvas' = {lm}
             /\ lastOp' = IF lm.whole THEN "frame:drawn" ELSE "frame:drawThrew"
    ELSE /\ canvas' = {}
         /\ lastOp' = "frame:cleared"
         /\ UNCHANGED <<leanAngle, slopeAngle>>

\* A processing that publishes an angle it could not compute as
\* unavailable.
ProcessLandmarks_unavailable(lm) ==
  IF lm.n > 0
    THEN LET torso == torsoVector(lm)
             lean == IF torso # NoVector
                       THEN angleBetween(torso, VERTICAL) ELSE Null
             slope == IF torso # NoVector
                        THEN angleBetween(torso, SLOPE) ELSE Null
         IN  /\ leanAngle' = IF lean # Null THEN toFixed1(lean) ELSE Null
             /\ slopeAngle' = IF slope # Null THEN toFixed1(slope) ELSE Null
             /\ canvas' = {lm}
             /\ lastOp' = IF lm.whole THEN "frame:drawn" ELSE "frame:drawThrew"
    ELSE /\ canvas' = {}
         /\ lastOp' = "frame:cleared"
         /\ UNCHANGED <<leanAngle, slopeAngle>>

\* The try block of runDetection past a query that returned lm: the
\* angles, then the drawing or the clearing.
ProcessLandmarks(lm) ==
  IF lm.n > 0
    THEN LET torso == torsoVector(lm)
             lean == IF torso # NoVector
                       THEN angleBetween(torso, VERTICAL) ELSE Null
             slope == IF torso # NoVector
                        THEN angleBetween(torso, SLOPE) ELSE Null
         IN  /\ leanAngle' = IF lean # Null THEN toFixed1(lean) ELSE leanAngle
             /\ slopeAngle' = IF slope # Null THEN toFixed1(slope) ELSE slopeAngle
             \* clearRect, then the strokes and the joints of lm; reading
             \* point.visibility of a missing entry throws (caught) and
             \* leaves the drawing of lm unfinished
             /\ canvas' = {lm}
             /\ lastOp' = IF lm.whole THEN "frame:drawn" ELSE "frame:drawThrew"
    ELSE /\ canvas' = {}
         /\ lastOp' = "frame:cleared"
         /\ UNCHANGED <<leanAngle, slopeAngle>>

\* The try block of runDetection: the detection query, the angles, the
\* drawing.  lastOp records how the block ended.
DetectAndDraw ==
  \/ \* detectForVideo throws: caught.  (Giving the canvas another size
     \* has reset its bitmap.)
     /\ lastOp' = "frame:queryThrew"
     /\ canvas' = IF canvasSize' # canvasSize THEN {} ELSE canvas
     /\ UNCHANGED <<leanAngle, slopeAngle>>
  \/ \E lm \in DetectorResults : ProcessLandmarks(lm)

Threw == {"frame:queryThrew", "frame:drawThrew"}

\* The iterations that got as far as denormalising keypoints.
Drew == {"frame:drawn", "frame:drawThrew"}

\* The guard of runDetection: without a 2-D context the callback returns,
\* and nothing schedules another one.
NoContext ==
  /\ lastOp' = "frame:noContext"
  /\ UNCHANGED <<scheduled, rafRef, leanAngle, slopeAngle, canvas, elapsed,
                 canvasSize, scale>>

\* The body of runDetection past its guard, with resized telling whether
\* the canvas is first given the size of the video frame: the try block,
\* whose drawing multiplies the normalised coordinates by the canvas size.
Iterate(resized) ==
  /\ canvasSize' = IF resized THEN videoSize ELSE canvasSize
  /\ elapsed' \in {0, 1}
  /\ DetectAndDraw
  /\ scale' = IF lastOp' \in Drew THEN canvasSize' ELSE scale

\* A runDetection that schedules the next frame inside its try block, so
\* that an exception skips it.
runDetection_scheduleInTry(id) ==
  /\ MicrotasksDone
  /\ running # <<>> /\ id = Head(running)
  /\ running' = Tail(running)
  /\ IF ~context2d
       THEN NoContext
       ELSE /\ Iterate(TRUE)
            /\ IF lastOp' \in Threw
                 THEN UNCHANGED <<scheduled, rafRef>>
                 ELSE requestAnimationFrame(scheduled, Tail(running))
  /\ UNCHANGED <<gatewayVars, consumerVars, isReady, isInitializing, rendered,
                 calls, halted, binderVars, context2d, videoSize, pureVars, elsewhereVars>>

\* A runDetection that goes on scheduling frames without a 2-D context.
runDetection_keepsGoing(id) ==
  /\ MicrotasksDone
  /\ running # <<>> /\ id = Head(running)
  /\ running' = Tail(running)
  /\ IF ~context2d
       THEN /\ lastOp' = "frame:noContext"
            /\ requestAnimationFrame(scheduled, Tail(running))
            /\ UNCHANGED <<leanAngle, slopeAngle, canvas, elapsed, canvasSize, scale>>
       ELSE /\ Iterate(TRUE)
            /\ requestAnimationFrame(scheduled, Tail(running))
  /\ UNCHANGED <<gatewayVars, consumerVars, isReady, isInitializing, rendered,
                 calls, halted, binderVars, context2d, videoSize, pureVars, elsewhereVars>>

\* A runDetection that draws on the canvas at the size it finds it.
runDetection_keepsSize(id) ==
  /\ MicrotasksDone
  /\ running # <<>> /\ id = Head(running)
  /\ running' = Tail(running)
  /\ IF ~context2d
       THEN NoContext
       ELSE /\ Iterate(FALSE)
            /\ requestAnimationFrame(scheduled, Tail(running))
  /\ UNCHANGED <<gatewayVars, consumerVars, isReady, isInitializing, rendered,
                 calls, halted, binderVars, context2d, videoSize, pureVars, elsewhereVars>>

\* runDetection(landmarker, video, canvas), the callback with handle id,
\* run in the order the callbacks were scheduled.  The detection query is
\* tagged with performance.now(), which becomes the timestamp of the last
\* query; the clock may or may not have ticked when the callback returns.
runDetection(id) ==
  /\ MicrotasksDone
  /\ running # <<>> /\ id = Head(running)
  /\ running' = Tail(running)
  /\ IF ~context2d
       THEN NoContext
       ELSE /\ Iterate(TRUE)
            /\ requestAnimationFrame(scheduled, Tail(running))
  /\ UNCHANGED <<gatewayVars, consumerVars, isReady, isInitializing, rendered,
                 calls, halted, binderVars, context2d, videoSize, pureVars, elsewhereVars>>

\* The host stops handing out a 2-D context for the canvas.
ContextLost ==
  /\ TaskMayStart
  /\ context2d
  /\ context2d' = FALSE
  /\ lastOp' = "contextLost"
  /\ UNCHANGED <<gatewayVars, consumerVars, controllerVars, hostVars, halted,
                 binderVars, canvasSize, videoSize, scale, pureVars, elsewhereVars>>

\* A clearAngles that forgets to clear the slope angle.
clearAngles_leanOnly ==
  /\ leanAngle' = Null
  /\ slopeAngle' = slopeAngle

\* clearAngles()
clearAngles ==
  /\ leanAngle' = Null
  /\ slopeAngle' = Null

\* A cleanup that stops the loop and leaves the angles on display.
Teardown_keepsAngles ==
  /\ mounted /\ TaskMayStart
  /\ mounted' = FALSE
  /\ lastOp' = "teardown"
  /\ halted' = TRUE
  /\ IF rafRef # Null
       THEN /\ scheduled' = Remove(scheduled, rafRef)
            /\ rafRef' = Null
       ELSE UNCHANGED <<scheduled, rafRef>>
  /\ UNCHANGED <<gatewayVars, consumerVars, isReady, isInitializing, rendered,
                 calls, leanAngle, slopeAngle, canvas, running, elapsed, video,
                 containerDimensions, effects, surfaceVars, pureVars, elsewhereVars>>

\* The cleanup of the controller's effect, run when its component
\* unmounts: stopDetection() then clearAngles().
Teardown ==
  /\ mounted /\ TaskMayStart
  /\ mounted' = FALSE
  /\ lastOp' = "teardown"
  /\ halted' = TRUE
  /\ IF rafRef # Null
       THEN /\ scheduled' = Remove(scheduled, rafRef)
            /\ rafRef' = Null
       ELSE UNCHANGED <<scheduled, rafRef>>
  /\ clearAngles
  /\ UNCHANGED <<gatewayVars, consumerVars, isReady, isInitializing, rendered,
                 calls, canvas, running, elapsed, video, containerDimensions,
                 effects, surfaceVars, pureVars, elsewhereVars>>

\* ------------------------------------ functions applied on their own -----
\* The sets of at most k keypoint numbers.
RECURSIVE KeypointSets(_)
KeypointSets(k) ==
  IF k = 0 THEN {{}}
  ELSE LET smaller == KeypointSets(k - 1)
       IN  smaller \cup {S \cup {i} : S \in smaller, i \in 0..(FullPose - 1)}

\* Keypoints to draw: a full pose or the first 17 keypoints, at most
\* MaxLow of them under the threshold (not at all visible, or just under
\* it), the others at the threshold or fully visible.
DrawInputs ==
  {[n |-> n, vis |-> [i \in 0..(n - 1) |-> IF i \in low THEN v ELSE b]] :
     n \in {17, FullPose}, low \in KeypointSets(MaxLow),
     v \in {0, VisibilityThreshold - 1}, b \in {VisibilityThreshold, 100}}

\* The drawing of runDetection applied to arg: the strokes, then the joints.
Draw ==
  /\ out = NoArg
  /\ out' = [edges |-> drawnEdges(arg), joints |-> drawnJoints(arg),
             strokes |-> [e \in drawnEdges(arg) |-> strokeStyle(e[1], e[2])]]
  /\ lastOp' = "draw"
  /\ UNCHANGED <<gatewayVars, consumerVars, controllerVars, hostVars, halted,
                 binderVars, surfaceVars, arg, elsewhereVars>>

\* Where the four keypoints of the torso may be, in tenths of the frame.
Positions == {<<4, 2>>, <<6, 2>>, <<4, 8>>, <<6, 8>>}

\* Keypoint sequences for torsoVector: none at all (n = Null), too short,
\* of 33 keypoints or more; the four keypoints of the torso anywhere in
\* Positions, all visible or all hidden.
TorsoInputs ==
  {[n |-> n, ls |-> ls, rs |-> rs, lh |-> lh, rh |-> rh, whole |-> TRUE,
    visible |-> visible] :
     n \in {Null, 0, 25, FullPose - 1, FullPose, FullPose + 1},
     ls \in Positions, rs \in Positions, lh \in Positions, rh \in Positions,
     visible \in BOOLEAN}

\* torsoVector(arg)
ApplyTorsoVector ==
  /\ out = NoArg
  /\ out' = [v |-> torsoVector(arg)]
  /\ lastOp' = "torsoVector"
  /\ UNCHANGED <<gatewayVars, consumerVars, controllerVars, hostVars, halted,
                 binderVars, surfaceVars, arg, elsewhereVars>>

\* The eight compass directions of the image plane.
Compass ==
  {<<1, 0>>, <<1, 1>>, <<0, 1>>, <<-1, 1>>, <<-1, 0>>, <<-1, -1>>, <<0, -1>>,
   <<1, -1>>}

\* Vectors for angleBetween: the zero vector, the slope reference, an
\* oblique vector, and the compass directions at every length up to MaxMag.
Vectors ==
  {<<0, 0>>, SLOPE, <<2, -1>>}
    \cup {<<k * d[1], k * d[2]>> : k \in 1..MaxMag, d \in Compass}

AngleInputs == {[v1 |-> a, v2 |-> b] : a \in Vectors, b \in Vectors}

\* angleBetween(arg.v1, arg.v2)
ApplyAngleBetween ==
  /\ out = NoArg
  /\ out' = [angle |-> angleBetween(arg.v1, arg.v2)]
  /\ lastOp' = "angleBetween"
  /\ UNCHANGED <<gatewayVars, consumerVars, controllerVars, hostVars, halted,
                 binderVars, surfaceVars, arg, elsewhereVars>>

\* ------------------------------------------- Playback Binder (PosePlayer) -
\* The sizes a video frame or the player's container may have.
Sizes == {"sd", "hd"}

\* A render committed as soon as the state changes, ahead of the
\* continuations waiting in the microtask queue.
PlayerRender_eager ==
  /\ running = <<>>
  /\ effects = "idle"
  /\ Render
  /\ effects' = "cleanup"
  /\ UNCHANGED <<mounted, video, containerDimensions, surfaceVars, pureVars, elsewhereVars>>

\* React commits a render of the player.  The render is scheduled as a
\* task; the effects that depend on the callbacks it rebuilt (the listeners
\* effect and the mount effect) are then to run again.
PlayerRender ==
  /\ TaskMayStart
  /\ effects = "idle"
  /\ Render
  /\ effects' = "cleanup"
  /\ UNCHANGED <<mounted, video, containerDimensions, surfaceVars, pureVars, elsewhereVars>>

\* The cleanup of the listeners effect: the listeners are removed and
\* stopDetection() is called.
EffectCleanup ==
  /\ effects = "cleanup"
  /\ stopDetection
  /\ effects' = "init"
  /\ UNCHANGED <<mounted, video, containerDimensions, surfaceVars, pureVars, elsewhereVars>>

\* The mount effect calls initializeMediaPipe(); the listeners effect adds
\* the listeners built by the same render.
EffectInit ==
  /\ effects = "init"
  /\ initializeMediaPipe
  /\ effects' = "idle"
  /\ UNCHANGED <<mounted, video, containerDimensions, surfaceVars, pureVars, elsewhereVars>>

\* A handlePlay that starts the detection whatever the ready flag.
handlePlay_ungated ==
  /\ TaskMayStart
  /\ effects = "idle"
  /\ video \in {"paused", "ended"}
  /\ startDetection
  /\ video' = "playing"
  /\ UNCHANGED <<mounted, containerDimensions, effects, surfaceVars, pureVars, elsewhereVars>>

\* handlePlay, the listener of the video's play event.
handlePlay ==
  /\ TaskMayStart
  /\ effects = "idle"
  /\ video \in {"paused", "ended"}
  /\ IF ~rendered.ready
       THEN \* video.pause(); return
            /\ video' = "pausing"
            /\ lastOp' = "handlePlay:paused"
            /\ UNCHANGED <<gatewayVars, consumerVars, controllerVars, hostVars, halted>>
       ELSE /\ startDetection
            /\ video' = "playing"
  /\ UNCHANGED <<mounted, containerDimensions, effects, surfaceVars, pureVars, elsewhereVars>>

\* handlePause, the listener of the pause event (the user paused the
\* video, or handlePlay did).
handlePause ==
  /\ TaskMayStart
  /\ effects = "idle"
  /\ video \in {"playing", "pausing"}
  /\ stopDetection
  /\ video' = "paused"
  /\ UNCHANGED <<mounted, containerDimensions, effects, surfaceVars, pureVars, elsewhereVars>>

\* handleEnded, the listener of the ended event.
handleEnded ==
  /\ TaskMayStart
  /\ effects = "idle"
  /\ video = "playing"
  /\ stopDetection
  /\ video' = "ended"
  /\ UNCHANGED <<mounted, containerDimensions, effects, surfaceVars, pureVars, elsewhereVars>>

\* handleContainerResize(dimensions), called when the container of the
\* player changes size.
handleContainerResize(dimensions) ==
  /\ TaskMayStart
  /\ lastOp' = "handleContainerResize"
  /\ IF containerDimensions = "none" \/ containerDimensions # dimensions
       THEN \* assigning canvas.width resets the bitmap
            /\ canvasSize' = dimensions
            /\ canvas' = {}
            /\ containerDimensions' = dimensions
       ELSE UNCHANGED <<canvasSize, canvas, containerDimensions>>
  /\ UNCHANGED <<gatewayVars, consumerVars, isReady, isInitializing, rendered, calls,
                 rafRef, leanAngle, slopeAngle, hostVars, halted,
                 mounted, video, effects, context2d, videoSize, scale, pureVars, elsewhereVars>>

\* The video element learns or changes the native size of its frames.
VideoResize ==
  /\ TaskMayStart
  /\ \E size \in Sizes \ {videoSize} : videoSize' = size
  /\ lastOp' = "videoResize"
  /\ UNCHANGED <<gatewayVars, consumerVars, controllerVars, hostVars, halted,
                 binderVars, context2d, canvasSize, scale, pureVars, elsewhereVars>>

\* ------------------------------------- sessions on the shared detector ----
\* Every PosePlayer has its own usePoseDetection, and all of them get the
\* one detector of the gateway.  A session is followed from the
\* getLandmarker() of its startDetection on.
Sessions == 1..MaxSessions

\* The handle the host gives to the next requestAnimationFrame.
FreeHandle(sched, run) ==
  LET free == (1..MaxRaf) \ (Range(sched) \cup Range(run))
  IN  CHOOSE x \in free : \A y \in free : x <= y

\* No startDetection of a session is waiting to resume in a microtask.
SessionsSettled ==
  \A t \in Sessions :
    IF sessionAwait[t] = Null THEN TRUE
    ELSE PromiseState(sessionAwait[t]) = "pending"

\* startDetection of session s up to await getLandmarker().
SessionStart(s) ==
  /\ TaskMayStart /\ SessionsSettled
  /\ sessionAwait[s] = Null /\ sessionRaf[s] = Null
  /\ \E p \in Ids :
       /\ getLandmarker(p)
       /\ sessionAwait' = [sessionAwait EXCEPT ![s] = p]
  /\ lastOp' = "session:start"
  /\ UNCHANGED <<consumerVars, controllerVars, hostVars, halted, binderVars,
                 surfaceVars, pureVars, sessionRaf, appVars, uploadVars>>

\* startDetection of session s after its await: with the detector it
\* schedules its first iteration; a rejection is caught.
SessionResume(s) ==
  /\ sessionAwait[s] # Null
  /\ PromiseState(sessionAwait[s]) # "pending"
  /\ sessionAwait' = [sessionAwait EXCEPT ![s] = Null]
  /\ IF PromiseState(sessionAwait[s]) = "fulfilled"
       THEN LET h == FreeHandle(scheduled, running)
            IN  /\ scheduled' = Append(scheduled, h)
                /\ sessionRaf' = [sessionRaf EXCEPT ![s] = h]
       ELSE UNCHANGED <<scheduled, sessionRaf>>
  /\ lastOp' = "session:resume"
  /\ UNCHANGED <<gatewayVars, consumerVars, controllerVars, running, elapsed, halted,
                 binderVars, surfaceVars, pureVars, appVars, uploadVars>>

\* stopDetection of session s.
SessionStop(s) ==
  /\ TaskMayStart
  /\ SessionsSettled
  /\ sessionRaf[s] # Null
  /\ scheduled' = Remove(scheduled, sessionRaf[s])
  /\ sessionRaf' = [sessionRaf EXCEPT ![s] = Null]
  /\ lastOp' = "session:stop"
  /\ UNCHANGED <<gatewayVars, consumerVars, controllerVars, running, elapsed, halted,
                 binderVars, surfaceVars, pureVars, sessionAwait, appVars, uploadVars>>

\* The host begins an animation frame, once the sessions' microtasks are
\* done.
SessionsFrame ==
  /\ SessionsSettled
  /\ BeginFrame

\* runDetection of session s: the query, tagged with performance.now(),
\* goes to the shared detector, and the next iteration is scheduled.  The
\* time the callback takes may be less than a tick of the clock.
SessionQuery(s) ==
  /\ running # <<>> /\ sessionRaf[s] = Head(running)
  /\ running' = Tail(running)
  /\ elapsed' \in {0, 1}
  /\ LET h == FreeHandle(scheduled, Tail(running))
     IN  /\ scheduled' = Append(scheduled, h)
         /\ sessionRaf' = [sessionRaf EXCEPT ![s] = h]
  /\ lastOp' = "session:query"
  /\ UNCHANGED <<gatewayVars, consumerVars, controllerVars, halted, binderVars,
                 surfaceVars, pureVars, sessionAwait, appVars, uploadVars>>

\* ------------------------------------------------------------- App --------
\* The list of videos (App.jsx) and the videos object store
\* (videoStorageService.js), from the moment the stored videos are loaded.
\* A video is its id, its isProcessing flag and whether it has metrics.
VideoIds == 1..MaxVideos

VideoItem(id) == [id |-> id, isProcessing |-> TRUE, metrics |-> FALSE]

IdsOf(list) == {list[i].id : i \in 1..Len(list)}

\* What is not the App's.
notAppVars ==
  <<gatewayVars, consumerVars, controllerVars, hostVars, halted, binderVars,
    surfaceVars, pureVars, sessionVars, uploadVars>>

\* What handleVideoAdded(newVideo) does to the App, with the item
\* processVideoFile made: the video goes to the head of the list and its
\* analysis starts.
VideoAdded(id) ==
  /\ nextVideo < MaxVideos
  /\ id = nextVideo + 1
  /\ nextVideo' = id
  /\ videos' = <<VideoItem(id)>> \o videos
  /\ dirty' = TRUE
  /\ analyses' = analyses \cup {id}
  /\ UNCHANGED <<storage, saves, deletes>>

\* handleVideoAdded(newVideo) as a step of its own.
handleVideoAdded(id) ==
  /\ VideoAdded(id)
  /\ lastOp' = "handleVideoAdded"
  /\ UNCHANGED notAppVars

\* AnalysisDone, had the completion marked every video of the list.
AnalysisDone_everyVideo(id) ==
  /\ id \in analyses
  /\ analyses' = analyses \ {id}
  /\ videos' = [i \in 1..Len(videos) |->
                  [videos[i] EXCEPT !.metrics = TRUE, !.isProcessing = FALSE]]
  /\ dirty' = TRUE
  /\ lastOp' = "analysisDone"
  /\ UNCHANGED <<storage, saves, deletes, nextVideo, notAppVars>>

\* processVideoAnalysis(id) resolves: the video of that id gets its
\* metrics and leaves the processing state.
AnalysisDone(id) ==
  /\ id \in analyses
  /\ analyses' = analyses \ {id}
  /\ videos' = [i \in 1..Len(videos) |->
                  IF videos[i].id = id
                    THEN [videos[i] EXCEPT !.metrics = TRUE, !.isProcessing = FALSE]
                    ELSE videos[i]]
  /\ dirty' = TRUE
  /\ lastOp' = "analysisDone"
  /\ UNCHANGED <<storage, saves, deletes, nextVideo, notAppVars>>

\* The save effect, run after a render in which videos changed:
\* saveVideos(videos) starts unless the list is empty.
SaveEffect ==
  /\ dirty
  /\ dirty' = FALSE
  /\ saves' = IF Len(videos) > 0 THEN saves \cup {videos} ELSE saves
  /\ lastOp' = "saveEffect"
  /\ UNCHANGED <<videos, storage, deletes, analyses, nextVideo, notAppVars>>

\* A saveVideos call has its blobs and its database: one transaction puts
\* every video of the list it was given. (The database is taken to open.)
SavePut(list) ==
  /\ list \in saves
  /\ saves' = saves \ {list}
  /\ storage' = {r \in storage : r.id \notin IdsOf(list)} \cup Range(list)
  /\ lastOp' = "savePut"
  /\ UNCHANGED <<videos, dirty, deletes, analyses, nextVideo, notAppVars>>

\* handleDeleteVideo(videoId) up to await deleteVideo(videoId).
handleDeleteVideo(id) ==
  /\ id \in IdsOf(videos)
  /\ deletes[id] = "none"
  /\ deletes' = [deletes EXCEPT ![id] = "deleteVideo"]
  /\ lastOp' = "handleDeleteVideo"
  /\ UNCHANGED <<videos, dirty, storage, saves, analyses, nextVideo, notAppVars>>

\* deleteVideo(videoId) settles: its transaction deleted the record.
DeleteCommit(id) ==
  /\ deletes[id] = "deleteVideo"
  /\ deletes' = [deletes EXCEPT ![id] = "resolved"]
  /\ storage' = {r \in storage : r.id # id}
  /\ lastOp' = "deleteVideo"
  /\ UNCHANGED <<videos, dirty, saves, analyses, nextVideo, notAppVars>>

\* handleDeleteVideo after its await: the video leaves the list.
DeleteResume(id) ==
  /\ deletes[id] = "resolved"
  /\ deletes' = [deletes EXCEPT ![id] = "completed"]
  /\ videos' = SelectSeq(videos, LAMBDA v : v.id # id)
  /\ dirty' = TRUE
  /\ lastOp' = "deleteResume"
  /\ UNCHANGED <<storage, saves, analyses, nextVideo, notAppVars>>

\* ---------------------------------------------------- useVideoUpload -----
\* The hook under any caller. A file is one of: no file at all, a video, a
\* video whose metadata does not load, a file that is not a video, a video
\* over the size limit, a file that is neither a video nor under the limit.
UploadCalls == 1..MaxUploads

Files == {"null", "video", "broken", "notVideo", "big", "bigNotVideo"}

\* validateVideoFile(file): the list of its complaints.
validateVideoFile(file) ==
  IF file = "null" THEN <<"No file selected">>
  ELSE (IF file \in {"notVideo", "bigNotVideo"}
          THEN <<"File must be a video">> ELSE <<>>)
       \o (IF file \in {"big", "bigNotVideo"}
             THEN <<"File size must be less than 100MB">> ELSE <<>>)

\* validationErrors.join(', ')
RECURSIVE join(_)
join(errors) ==
  IF Len(errors) = 0 THEN ""
  ELSE IF Len(errors) = 1 THEN errors[1]
  ELSE errors[1] \o ", " \o join(Tail(errors))

\* The message of the error that uploadVideo(file) catches, "null" if none.
FailureMessage(file) ==
  IF Len(validateVideoFile(file)) > 0 THEN join(validateVideoFile(file))
  ELSE IF file = "broken" THEN "Failed to load video metadata"
  ELSE "null"

InProgress == {c \in UploadCalls : uploads[c].at = "processVideoFile"}

notUploadVars ==
  <<gatewayVars, consumerVars, controllerVars, hostVars, halted, binderVars,
    surfaceVars, pureVars, sessionVars>>

\* uploadVideo(file) up to await processVideoFile(file), or through catch
\* and finally when the file does not validate.
uploadVideo(c, file) ==
  /\ uploads[c].at = "idle"
  /\ \A b \in UploadCalls : b < c => uploads[b].at # "idle"
  /\ nextVideo + Cardinality(InProgress) < MaxVideos
  /\ IF Len(validateVideoFile(file)) > 0
       THEN /\ error' = join(validateVideoFile(file))
            /\ isUploading' = FALSE
            /\ uploads' = [uploads EXCEPT ![c] = [at |-> "rejected", file |-> file]]
            /\ lastOp' = "uploadVideo:rejected"
       ELSE /\ error' = "null"
            /\ isUploading' = TRUE
            /\ uploads' = [uploads EXCEPT ![c] = [at |-> "processVideoFile", file |-> file]]
            /\ lastOp' = "uploadVideo"
  /\ UNCHANGED <<invoked, appVars, notUploadVars>>

\* uploadVideo after its await: processVideoFile gave the item, which goes
\* to onVideoAdded (App's handleVideoAdded), or it failed to load the
\* metadata; finally clears isUploading.
uploadResume(c) ==
  /\ c \in InProgress
  /\ isUploading' = FALSE
  /\ IF uploads[c].file = "broken"
       THEN /\ error' = "Failed to load video metadata"
            /\ uploads' = [uploads EXCEPT ![c].at = "rejected"]
            /\ lastOp' = "uploadResume:rejected"
            /\ UNCHANGED <<invoked, appVars>>
       ELSE /\ VideoAdded(nextVideo + 1)
            /\ invoked' = [invoked EXCEPT ![c] = @ + 1]
            /\ uploads' = [uploads EXCEPT ![c].at = "resolved"]
            /\ lastOp' = "uploadResume:resolved"
            /\ UNCHANGED error
  /\ UNCHANGED notUploadVars

clearError ==
  /\ error # "null"
  /\ error' = "null"
  /\ lastOp' = "clearError"
  /\ UNCHANGED <<isUploading, uploads, invoked, appVars, notUploadVars>>

\* ------------------------------------------------- gateway consumers -----
\* Code outside the controller calls the gateway's two exports.
ConsumerGet ==
  /\ \E p \in Ids :
       /\ getLandmarker(p)
       /\ held' = held \cup {p}
       /\ epochReturned' = Remember(epochReturned, p)
  /\ epochStarts' = epochStarts + (nConstructions' - nConstructions)
  /\ lastOp' = "getLandmarker"
  /\ UNCHANGED restVars
  /\ UNCHANGED <<controllerVars, hostVars, halted>>

ConsumerReset ==
  /\ resetLandmarker
  /\ epochReturned' = <<>>
  /\ epochStarts' = 0
  /\ lastOp' = "resetLandmarker"
  /\ UNCHANGED restVars
  /\ UNCHANGED <<held, controllerVars, hostVars, halted>>

\* The host loads the detector's assets: a construction in flight moves on.
Construct ==
  /\ TaskMayStart
  /\ \E p \in Ids : ConstructionStep(p)
  /\ lastOp' = "construction"
  /\ UNCHANGED restVars
  /\ UNCHANGED <<consumerVars, controllerVars, hostVars, halted>>

\* ------------------------------------------------------ specification ----
Constructed ==
  /\ landmarkerPromise = Null
  /\ construction = [p \in Ids |-> "none"]
  /\ nConstructions = 0
  /\ epochReturned = <<>>
  /\ epochStarts = 0
  /\ held = {}
  /\ isReady = FALSE /\ isInitializing = FALSE
  /\ rendered = [ready |-> FALSE, initializing |-> FALSE]
  /\ calls = EmptyBag
  /\ rafRef = Null
  /\ leanAngle = Null /\ slopeAngle = Null
  /\ canvas = {}
  /\ scheduled = <<>> /\ running = <<>>
  /\ elapsed = Null
  /\ lastOp = "mount"
  /\ halted = FALSE
  /\ mounted = TRUE
  /\ video = "paused"
  /\ containerDimensions = "none"
  /\ effects = "init"
  /\ context2d = TRUE
  /\ canvasSize = "default"
  /\ videoSize = "none"
  /\ scale = "none"
  /\ sessionAwait = [s \in Sessions |-> Null]
  /\ sessionRaf = [s \in Sessions |-> Null]
  /\ videos = <<>>
  /\ dirty = FALSE
  /\ storage = {}
  /\ saves = {}
  /\ deletes = [id \in VideoIds |-> "none"]
  /\ analyses = {}
  /\ nextVideo = 0
  /\ isUploading = FALSE
  /\ error = "null"
  /\ uploads = [c \in UploadCalls |-> [at |-> "idle", file |-> "null"]]
  /\ invoked = [c \in UploadCalls |-> 0]

Init ==
  /\ Constructed
  /\ arg = NoArg
  /\ out = NoArg

\* The gateway alone, driven by code that calls its two exports.
GatewayNext ==
  \/ ConsumerGet
  \/ ConsumerReset
  \/ Construct

GatewaySpec == Init /\ [][GatewayNext]_vars

\* One controller over the gateway: its calls, the host's animation frames
\* and the progress of the detector construction it started.
Next ==
  \/ Construct
  \/ Render /\ UNCHANGED restVars
  \/ initializeMediaPipe /\ UNCHANGED restVars
  \/ \E c \in Suspended : initializeResume(c)
  \/ startDetection /\ UNCHANGED restVars
  \/ \E c \in Suspended : startAfterInitialize(c)
  \/ \E c \in Suspended : startAfterLandmarker(c)
  \/ stopDetection /\ UNCHANGED restVars
  \/ BeginFrame
  \/ \E id \in Range(running) : runDetection(id)
  \/ ContextLost
  \/ Teardown

Spec == Init /\ [][Next]_vars

\* Every record a suspended startDetection may be.
StartCalls ==
  {Call("start", pc, p) : pc \in {"initializeMediaPipe", "getLandmarker"},
                          p \in Ids \cup {Null}}

\* The host runs its microtasks: a startDetection whose await has settled
\* resumes.
FairSpec ==
  /\ Spec
  /\ \A c \in StartCalls : WF_vars(c \in Suspended /\ startAfterInitialize(c))
  /\ \A c \in StartCalls : WF_vars(c \in Suspended /\ startAfterLandmarker(c))

\* The controller's initialization while other code resets the gateway.
InitializeNext ==
  \/ Construct
  \/ Render /\ UNCHANGED restVars
  \/ initializeMediaPipe /\ UNCHANGED restVars
  \/ \E c \in Suspended : initializeResume(c)
  \/ ConsumerReset

InitializeSpec == Init /\ [][InitializeNext]_vars

\* The App: uploads, analyses, deletions and the saves they cause.
AppNext ==
  \/ \E id \in VideoIds : handleVideoAdded(id)
  \/ \E id \in VideoIds : AnalysisDone(id)
  \/ SaveEffect
  \/ \E list \in saves : SavePut(list)
  \/ \E id \in VideoIds : handleDeleteVideo(id)
  \/ \E id \in VideoIds : DeleteCommit(id)
  \/ \E id \in VideoIds : DeleteResume(id)

AppSpec == Init /\ [][AppNext]_vars

\* The timer of processVideoAnalysis fires: every analysis resolves.
FairAppSpec == AppSpec /\ \A id \in VideoIds : WF_vars(AnalysisDone(id))

\* The upload hook under any caller of uploadVideo and clearError.
UploadNext ==
  \/ \E c \in UploadCalls, file \in Files : uploadVideo(c, file)
  \/ \E c \in UploadCalls : uploadResume(c)
  \/ clearError

UploadSpec == Init /\ [][UploadNext]_vars

\* Several players at once, each with a loop on the shared detector.
SessionsNext ==
  \/ SessionsSettled /\ Construct
  \/ \E s \in Sessions : SessionStart(s)
  \/ \E s \in Sessions : SessionResume(s)
  \/ \E s \in Sessions : SessionStop(s)
  \/ SessionsFrame
  \/ \E s \in Sessions : SessionQuery(s)

SessionsSpec == Init /\ [][SessionsNext]_vars

\* The PosePlayer component: the controller is called by its effects and
\* by the listeners of its video element only.
PlayerNext ==
  \/ Construct
  \/ PlayerRender
  \/ EffectCleanup
  \/ EffectInit
  \/ \E c \in Suspended : initializeResume(c)
  \/ handlePlay
  \/ \E c \in Suspended : startAfterLandmarker(c)
  \/ handlePause
  \/ handleEnded
  \/ BeginFrame
  \/ \E id \in Range(running) : runDetection(id)
  \/ \E dimensions \in Sizes : handleContainerResize(dimensions)
  \/ VideoResize

PlayerSpec == Init /\ [][PlayerNext]_vars

\* The host keeps going: a settled await resumes, a construction in flight
\* settles, a render that is due is committed and its effects run.
FairPlayerSpec ==
  /\ PlayerSpec
  /\ WF_vars(\E c \in Suspended : initializeResume(c))
  /\ WF_vars(\E c \in Suspended : startAfterLandmarker(c))
  /\ WF_vars(Construct)
  /\ WF_vars(PlayerRender)
  /\ WF_vars(EffectCleanup)
  /\ WF_vars(EffectInit)

\* ============================================================ claims =====
Pending == Range(scheduled) \cup Range(running)

C2_RetryAfterFailure ==
  lastOp = "getLandmarker" => PromiseState(landmarkerPromise) # "rejected"

\* C3: once stopDetection() has been called and until startDetection() is
\* called again, no loop iteration runs (none queries the detector or
\* touches the angles).
C3_NoIterationAfterStop == lastOp \in FrameOps => ~halted

\* C4: stopDetection() leaves rafRef null, and a call that finds rafRef
\* null (a second call in a row, or a call when no loop was started)
\* changes nothing: not the handle, the angles, the flags, the suspended
\* calls, the pending callbacks or the drawing surface.
C4_StopIdempotent ==
  [][lastOp' \in StopOps =>
       /\ rafRef' = Null
       /\ rafRef = Null =>
            UNCHANGED <<rafRef, leanAngle, slopeAngle, isReady, isInitializing,
                        rendered, calls, canvas, scheduled, running>>]_vars

\* stopDetection() found nothing to cancel in a session that had computed
\* angles and is ready.
C4_Witness ==
  lastOp = "stopDetection:idle" /\ halted /\ isReady /\ leanAngle # Null

\* C5: stopDetection() cancels the scheduled iteration whose handle rafRef
\* holds and leaves leanAngle and slopeAngle as they were.
C5_StopKeepsAngles ==
  [][lastOp' \in StopOps =>
       /\ leanAngle' = leanAngle /\ slopeAngle' = slopeAngle
       /\ rafRef # Null => rafRef \notin Range(scheduled') \cup Range(running')
       /\ rafRef' = Null]_vars

\* stopDetection() cancelled the only scheduled iteration of a loop that
\* had computed angles.
C5_Witness ==
  /\ lastOp = "stopDetection:cancelled"
  /\ leanAngle # Null /\ slopeAngle # Null
  /\ Pending = {}

\* C6, as claimed: an iteration whose detection query or drawing throws
\* schedules the next iteration and leaves the angles as they were.
C6_Original ==
  [][lastOp' \in Threw =>
       /\ rafRef' \in Range(scheduled')
       /\ leanAngle' = leanAngle /\ slopeAngle' = slopeAngle]_vars

\* C6, amended: an iteration whose detection query or drawing throws
\* schedules the next iteration; when the query throws the angles are left
\* as they were (when the drawing throws they were set before it).
C6_FailingFrameReschedules ==
  [][lastOp' \in Threw =>
       /\ rafRef' \in Range(scheduled')
       /\ Len(scheduled') = Len(scheduled) + 1
       /\ lastOp' = "frame:queryThrew" =>
            (leanAngle' = leanAngle /\ slopeAngle' = slopeAngle)]_vars

\* An iteration threw in a loop that had computed angles, and the next
\* iteration is scheduled.
C6_Witness ==
  /\ lastOp \in Threw
  /\ leanAngle # Null
  /\ rafRef \in Range(scheduled)

\* C7: at most one loop iteration of the session is scheduled or about to
\* run at any time.
C7_OneIteration == Cardinality(Pending) <= 1

\* C8: every detection query is tagged with a timestamp strictly greater
\* than that of the previous query: the clock has moved on since.
C8_TimestampsIncrease == [][lastOp' \in FrameOps => elapsed # 0]_vars

\* C9: never more than one detector instance exists or is being built.
C9_OneInstance == Cardinality(LiveInstances) <= 1

\* C10: resetLandmarker() clears the cached promise whatever the gateway's
\* state and touches no construction; a promise that has settled keeps its
\* outcome; and the first getLandmarker() after a reset starts a fresh
\* construction and caches its promise.
C10_ResetClearsCache ==
  [][/\ lastOp' = "resetLandmarker" =>
          (landmarkerPromise' = Null /\ construction' = construction)
     /\ \A p \in Ids :
          PromiseState(p) # "pending" => construction'[p] = construction[p]
     /\ (lastOp' = "getLandmarker" /\ epochReturned = <<>>) =>
          /\ nConstructions' = nConstructions + 1
          /\ landmarkerPromise' = nConstructions'
          /\ construction[landmarkerPromise'] = "none"
          /\ construction'[landmarkerPromise'] = "filesets"]_vars

\* A consumer holds the promise of a construction that was reset while it
\* was pending or ready and has since produced its detector, while the
\* gateway caches the promise of a later construction.
C10_Witness ==
  /\ landmarkerPromise # Null
  /\ PromiseState(landmarkerPromise) = "pending"
  /\ \E p \in held : p # landmarkerPromise /\ PromiseState(p) = "fulfilled"

\* The renderer applied to keypoints of every mix of visibility.
RenderInit ==
  /\ Constructed
  /\ arg \in DrawInputs
  /\ out = NoArg

RenderSpec == RenderInit /\ [][Draw]_vars

\* torsoVector applied to keypoint sequences of every length.
GeometryInit ==
  /\ Constructed
  /\ arg \in TorsoInputs
  /\ out = NoArg

GeometryNext ==
  \/ ApplyTorsoVector

GeometrySpec == GeometryInit /\ [][GeometryNext]_vars

\* A suspended call that is an initialization attempt: initializeMediaPipe
\* past its guard, called directly or from startDetection.
Initializing(c) ==
  \/ c.kind = "init"
  \/ c.kind = "start" /\ c.pc = "initializeMediaPipe" /\ c.p # Null

\* The number of initialization attempts in flight.
InFlight(bag) ==
  BagCardinality([c \in {d \in BagToSet(bag) : Initializing(d)} |-> CopiesIn(c, bag)])

\* C11: an initializeMediaPipe() call made while the controller is ready or
\* initializing is a no-op (no gateway call, flags unchanged), so that
\* never more than one initialization attempt is in flight.
C11_InitializeGuard ==
  [][/\ (lastOp' = "initializeMediaPipe" /\ (isReady \/ isInitializing)) =>
          UNCHANGED <<gatewayVars, isReady, isInitializing, calls>>
     /\ InFlight(calls') <= 1]_vars

\* C12: when the construction fails during initializeMediaPipe() the
\* controller is left idle (not ready, not initializing), and a later
\* initializeMediaPipe() that passes the guard is a fresh attempt: it does
\* not wait on a construction that has already failed.
C12_RetryAfterInitFailure ==
  [][/\ (/\ lastOp' = "initializeResume"
          /\ \E c \in Suspended :
               c.kind = "init" /\ PromiseState(c.p) = "rejected" /\ calls' = Finish(c))
          => (~isReady' /\ ~isInitializing')
     /\ (lastOp' = "initializeMediaPipe" /\ calls' # calls) =>
          \A c \in BagToSet(calls') : c.kind = "init" => construction'[c.p] # "failed"]_vars

C14_TeardownClearsAngles ==
  [][lastOp' = "teardown" =>
       /\ rafRef # Null => rafRef \notin Pending'
       /\ rafRef' = Null
       /\ leanAngle' = Null /\ slopeAngle' = Null
       /\ UNCHANGED gatewayVars]_vars

\* The component was torn down after its loop had drawn a skeleton over a
\* detector the gateway still caches; no iteration is left.
C14_Witness ==
  /\ lastOp = "teardown"
  /\ canvas = {Upright}
  /\ Pending = {}
  /\ landmarkerPromise # Null
  /\ PromiseState(landmarkerPromise) = "fulfilled"

\* The controller has settled as failed: not ready, not initializing, no
\* initialization in flight, and the component rendered and its effects
\* run for that state.
SettledFailed ==
  /\ ~isReady /\ ~isInitializing
  /\ InFlight(calls) = 0
  /\ rendered = Flags
  /\ effects = "idle"

C16_NoContextNoOp ==
  [][lastOp' = "frame:noContext" =>
       /\ UNCHANGED <<leanAngle, slopeAngle, canvas, canvasSize, scale, elapsed>>
       /\ scheduled' = scheduled
       /\ Len(running') = Len(running) - 1
       /\ UNCHANGED <<rafRef, isReady, isInitializing, calls, gatewayVars>>]_vars

\* An iteration ran after stopDetection() and found no 2-D context; it was
\* the last one of its loop.
C16_Witness ==
  /\ lastOp = "frame:noContext"
  /\ halted
  /\ Pending = {}

\* C17: whatever the mix of visibilities, no joint is drawn for a keypoint
\* under the threshold and no edge that ends at one, and every keypoint at
\* or over the threshold is drawn as a joint.
C17_LowVisibilityNotDrawn ==
  out # NoArg =>
    \A i \in 0..(arg.n - 1) :
      IF arg.vis[i] < VisibilityThreshold
        THEN /\ i \notin out.joints
             /\ \A e \in out.edges : e[1] # i /\ e[2] # i
        ELSE i \in out.joints

\* A drawing with edges, of a pose in which a keypoint just under the
\* threshold is connected to a keypoint exactly at it.
C17_Witness ==
  /\ out # NoArg
  /\ out.edges # {}
  /\ \E e \in Range(getPoseConnections) :
       /\ e[1] < arg.n /\ e[2] < arg.n
       /\ arg.vis[e[1]] = VisibilityThreshold - 1
       /\ arg.vis[e[2]] = VisibilityThreshold

\* C19: for a keypoint sequence that is missing or shorter than 33,
\* torsoVector returns the absence value.
C19_ShortGivesNoVector ==
  (out # NoArg /\ (arg.n = Null \/ arg.n < 33)) => out.v = NoVector

\* torsoVector was applied to a sequence of 32 keypoints.
C19_Witness ==
  out # NoArg /\ arg.n = 32 /\ out.v = NoVector

AngleInit ==
  /\ Constructed
  /\ arg \in AngleInputs
  /\ out = NoArg

AngleNext ==
  \/ ApplyAngleBetween

AngleSpec == AngleInit /\ [][AngleNext]_vars

C30_SlopeTilt ==
  (out # NoArg /\ arg.v1 = SLOPE /\ arg.v2 = VERTICAL) => out.angle = 2500

\* C22: an iteration whose query returns a perfectly upright torso (the
\* shoulder midpoint straight above the hip midpoint in image coordinates,
\* torso vector (0, -k) with k > 0) publishes a leanAngle of 0 degrees.
C22_UprightLeanZero ==
  [][\A lm \in DetectorResults :
       (/\ lm.n >= FullPose
        /\ torsoVector(lm)[1] = 0 /\ torsoVector(lm)[2] < 0
        /\ ProcessLandmarks(lm))
         => leanAngle' = 0]_vars

\* C23: every connection (a, b) that is stroked gets its colour by this
\* precedence: the face colour if a and b are both in 0..10, else the limb
\* colour if a or b is in 11..16, else the leg colour if a or b is in
\* 23..32, else the torso colour.
C23_StrokePrecedence ==
  out # NoArg =>
    \A e \in out.edges :
      LET face == e[1] \in 0..10 /\ e[2] \in 0..10
          limb == e[1] \in 11..16 \/ e[2] \in 11..16
          leg == e[1] \in 23..32 \/ e[2] \in 23..32
      IN  /\ face => out.strokes[e] = "lightblue"
          /\ (~face /\ limb) => out.strokes[e] = "green"
          /\ (~face /\ ~limb /\ leg) => out.strokes[e] = "orange"
          /\ (~face /\ ~limb /\ ~leg) => out.strokes[e] = "red"

\* The whole table was stroked, and the connection from shoulder 11 to hip
\* 23, which is in the limb range and in the leg range, got the limb colour.
C23_Witness ==
  /\ out # NoArg
  /\ out.edges = Range(getPoseConnections)
  /\ out.strokes[<<11, 23>>] = "green"
  /\ out.strokes[<<9, 10>>] = "lightblue"
  /\ out.strokes[<<23, 25>>] = "orange"

\* C24: the torso connections (shoulder to shoulder 11-12, shoulder to hip
\* 11-23 and 12-24, hip to hip 23-24) are stroked in the torso colour, red,
\* not in the green of the arms or the orange of the legs.
C24_TorsoRed ==
  out # NoArg =>
    \A e \in out.edges \cap {<<11, 12>>, <<11, 23>>, <<12, 24>>, <<23, 24>>} :
      out.strokes[e] = "red"

\* A startDetection is suspended whose initialization has succeeded: at
\* its inline initializeMediaPipe() (its own attempt, or the early return
\* that leaves it to the attempt in flight) or at the getLandmarker() that
\* follows, with the detector built.
StartReady ==
  \E c \in Suspended :
    /\ c.kind = "start"
    /\ IF c.p # Null THEN PromiseState(c.p) = "fulfilled"
       ELSE landmarkerPromise # Null /\ PromiseState(landmarkerPromise) = "fulfilled"

\* C25: a startDetection called while not ready initializes inline (or
\* leaves it to the initialization in flight) and, once that has
\* succeeded, eventually schedules the first iteration; and outside the
\* loop itself a frame is only ever requested by a startDetection whose
\* getLandmarker() has resolved to the detector.
C25_StartInitializesThenRuns ==
  /\ [][(Len(scheduled') > Len(scheduled) /\ lastOp' \notin FrameOps) =>
          /\ lastOp' = "startResume:scheduled"
          /\ rafRef' = scheduled'[Len(scheduled')]
          /\ \E c \in Suspended :
               /\ c.kind = "start" /\ c.pc = "getLandmarker"
               /\ PromiseState(c.p) = "fulfilled"
               /\ calls' = Finish(c)]_vars
  /\ StartReady ~> (lastOp = "startResume:scheduled")

\* A startDetection called before the component had rendered as ready has
\* just scheduled the first iteration.
C25_Witness ==
  /\ lastOp = "startResume:scheduled"
  /\ ~rendered.ready /\ isReady
  /\ rafRef # Null /\ rafRef \in Range(scheduled)

\* C26: an iteration whose query finds no skeleton clears the drawing
\* surface, leaves leanAngle and slopeAngle as they were and schedules the
\* next iteration.
C26_NoSkeletonClears ==
  [][lastOp' = "frame:cleared" =>
       /\ canvas' = {}
       /\ UNCHANGED <<leanAngle, slopeAngle>>
       /\ Len(scheduled') = Len(scheduled) + 1
       /\ rafRef' = scheduled'[Len(scheduled')]
       /\ rafRef' \notin Range(scheduled) \cup Range(running')]_vars

\* An iteration found no skeleton after one that had published angles and
\* drawn: the surface is blank, the angles are still there and the next
\* iteration is pending.
C26_Witness ==
  /\ lastOp = "frame:cleared"
  /\ canvas = {}
  /\ leanAngle # Null /\ slopeAngle # Null
  /\ rafRef # Null /\ rafRef \in Range(scheduled)

\* C27: after every iteration that completes its query the surface shows
\* the result of that query and nothing else: the strokes of one pose, the
\* one whose angles the iteration published, or nothing when the query
\* found no skeleton; no stroke of an earlier query is left.
C27_OverlayShowsQuery ==
  [][/\ lastOp' = "frame:cleared" => canvas' = {}
     /\ lastOp' \in Drew =>
          \E lm \in DetectorResults :
            /\ canvas' = {lm}
            /\ lm.n > 0
            /\ lm.whole <=> lastOp' = "frame:drawn"
            /\ LET torso == torsoVector(lm)
               IN  IF torso # NoVector /\ torso # <<0, 0>>
                     THEN /\ leanAngle' = toFixed1(angleBetween(torso, VERTICAL))
                          /\ slopeAngle' = toFixed1(angleBetween(torso, SLOPE))
                     ELSE UNCHANGED <<leanAngle, slopeAngle>>]_vars

\* The surface shows a pose of 17 keypoints, which gives no angles, and
\* nothing of the earlier pose whose angles are still published.
C27_Witness ==
  /\ lastOp = "frame:drawn"
  /\ canvas = {ShortPose}
  /\ leanAngle # Null

C29_OnlyTeardownClears ==
  [][((leanAngle # Null /\ leanAngle' = Null) \/ (slopeAngle # Null /\ slopeAngle' = Null))
       => lastOp' = "teardown"]_vars

\* The loop was stopped after an iteration that drew a pose of 17
\* keypoints, and the angles of an earlier pose are still available.
C29_Witness ==
  /\ lastOp = "stopDetection:cancelled"
  /\ canvas = {ShortPose}
  /\ leanAngle # Null /\ slopeAngle # Null

\* C18: at every render of the loop (a drawing or a clearing) the canvas
\* has the native size of the video frame of that iteration, and a drawing
\* multiplies the normalised coordinates by that size, whatever the video
\* or the container-resize handler did to the sizes since the last render.
C18_CanvasMatchesVideo ==
  [][lastOp' \in Drew \cup {"frame:cleared"} =>
       /\ videoSize' = videoSize
       /\ canvasSize' = videoSize
       /\ lastOp' \in Drew => scale' = videoSize]_vars

\* A skeleton was drawn at the size of the video although the container
\* handler had last given the canvas another size.
C18_Witness ==
  /\ lastOp = "frame:drawn"
  /\ videoSize = "sd" /\ containerDimensions = "hd"
  /\ canvasSize = "sd" /\ scale = "sd"

\* C31: leanAngle is unavailable exactly when slopeAngle is: an iteration
\* sets both or neither, and the teardown clears both.
C31_AnglesTogether ==
  (leanAngle = Null) <=> (slopeAngle = Null)

\* An iteration whose query threw has left both angles as the iteration
\* of a leaning pose had published them: 135 and 70 degrees.
C31_Witness ==
  /\ mounted
  /\ lastOp = "frame:queryThrew"
  /\ leanAngle = 1350 /\ slopeAngle = 700

\* C32: once the controller's component is torn down no iteration of its
\* loop runs any more, and its angles stay unavailable, even if the
\* teardown came while a startDetection was awaiting the detector.
C32_NoIterationAfterTeardown ==
  [][~mounted =>
       /\ lastOp' \notin FrameOps \cup {"frame:noContext"}
       /\ leanAngle' = Null /\ slopeAngle' = Null]_vars

\* C33: with two or more sessions looping on the shared detector, every
\* query the detector receives carries a timestamp strictly greater than
\* that of the query before it, whichever session sent it: the clock has
\* moved on since.
C33_SharedTimestampsIncrease ==
  [][lastOp' = "session:query" => elapsed # 0]_vars

\* C34: whenever the controller is ready the gateway holds a detector that
\* was built, however initializeMediaPipe, getLandmarker and
\* resetLandmarker interleave; and the controller is never ready and
\* initializing at once.
C34_ReadyMeansDetector ==
  /\ isReady =>
       /\ landmarkerPromise # Null
       /\ PromiseState(landmarkerPromise) = "fulfilled"
  /\ ~(isReady /\ isInitializing)

\* C35: once handleDeleteVideo(id) has completed, no record of that id is
\* in the object store, whatever saveVideos calls, started on a list that
\* still had the video, complete after it.
C35_DeletedStaysDeleted ==
  \A id \in VideoIds :
    deletes[id] = "completed" => id \notin {r.id : r \in storage}

\* The video of the given id is in the list, with metrics and not processing.
Completed(id) ==
  \E i \in 1..Len(videos) :
    videos[i].id = id /\ videos[i].metrics /\ ~videos[i].isProcessing

\* C36: a video added through handleVideoAdded enters the list processing
\* and without metrics; a completion keeps the list's ids and order and
\* changes only the video it is for, so that a video deleted meanwhile is
\* not added again; a completed video never goes back to processing; and
\* every video in the list is eventually completed or out of the list.
C36_ProcessingCompletesOnce ==
  /\ [][/\ lastOp' = "handleVideoAdded" =>
             /\ Head(videos') = VideoItem(nextVideo')
             /\ Tail(videos') = videos
        /\ lastOp' = "analysisDone" =>
             /\ Len(videos') = Len(videos)
             /\ \E id \in analyses \ analyses' :
                  \A i \in 1..Len(videos) :
                    videos'[i] = IF videos[i].id = id
                                   THEN [id |-> id, isProcessing |-> FALSE, metrics |-> TRUE]
                                   ELSE videos[i]
        /\ \A id \in VideoIds :
             Completed(id) /\ id \in IdsOf(videos') => Completed(id)']_vars
  /\ \A id \in VideoIds :
       (id \in IdsOf(videos)) ~> (id \notin IdsOf(videos) \/ Completed(id))

\* The analysis of video 1 has just resolved after that video was deleted,
\* with video 2 in the list and still processing.
C36_Witness ==
  /\ lastOp = "analysisDone"
  /\ deletes[1] = "completed"
  /\ analyses = {2}
  /\ videos = <<VideoItem(2)>>

\* C37: isUploading is true while any uploadVideo call is in progress and
\* false when a call settles; a call that fails validation or processing
\* rejects with error holding the failure message and without invoking
\* onVideoAdded; a call that succeeds has invoked onVideoAdded exactly once,
\* with the new item, and leaves error null.
C37_UploadOutcome ==
  /\ [](InProgress # {} => isUploading)
  /\ [][\A c \in UploadCalls :
          uploads'[c].at # uploads[c].at /\ uploads'[c].at \in {"rejected", "resolved"} =>
            /\ ~isUploading'
            /\ uploads'[c].at = "rejected" <=> FailureMessage(uploads'[c].file) # "null"
            /\ uploads'[c].at = "rejected" =>
                 /\ error' = FailureMessage(uploads'[c].file)
                 /\ invoked'[c] = 0
                 /\ videos' = videos
            /\ uploads'[c].at = "resolved" =>
                 /\ error' = "null"
                 /\ invoked'[c] = 1
                 /\ videos' = <<VideoItem(nextVideo')>> \o videos]_vars

=============================================================================
